---- MODULE Spec2Model ----
(***************************************************************************)
(* Model of the IoTDataSpace MCP server (src/src/mcp_server.py): the       *)
(* keyword resolver _get_types, the filter normalizer and query dispatcher *)
(* _read, and the tool entry points get_types and read.                    *)
(*                                                                         *)
(* Python strings are sequences of one-character strings, so that strip,   *)
(* split, lower, the `in` substring test and float() are computed on the   *)
(* characters.  An optional argument is a record [some, v]; None is the    *)
(* record with some = FALSE.                                               *)
(***************************************************************************)
EXTENDS Integers, Sequences, FiniteSets, TLC

\* ------------------------------------------------------------------------
\* Bounds of the model
\* ------------------------------------------------------------------------
MaxTokens == 3
MaxFilters == 2
MaxKwTokens == 4
MaxRefeed == 1

\* ------------------------------------------------------------------------
\* Python str primitives
\* ------------------------------------------------------------------------
None == [some |-> FALSE, v |-> <<>>]

Some(x) == [some |-> TRUE, v |-> x]

Whitespace == {" ", "\t", "\n"}

Digits == {"0", "1", "2", "3", "4", "5", "6", "7", "8", "9"}

\* str.lower() on one character
LowerChar(c) ==
    CASE c = "A" -> "a" [] c = "E" -> "e" [] c = "F" -> "f" [] c = "H" -> "h"
      [] c = "I" -> "i" [] c = "N" -> "n" [] c = "T" -> "t" [] c = "W" -> "w"
      [] c = "Y" -> "y" [] OTHER -> c

\* str.lower()
Lower(s) == [i \in 1..Len(s) |-> LowerChar(s[i])]

\* str.strip(): drop leading and trailing whitespace
Strip(s) ==
    LET idx == {i \in 1..Len(s) : s[i] \notin Whitespace}
    IN  IF idx = {} THEN <<>>
        ELSE LET lo == CHOOSE i \in idx : \A j \in idx : i <= j
                 hi == CHOOSE i \in idx : \A j \in idx : i >= j
             IN  SubSeq(s, lo, hi)

\* str.find(sub) + 1: the first position at which sub occurs in s, 0 if none
Find(s, sub) ==
    LET occ == {i \in 1..(Len(s) - Len(sub) + 1) : SubSeq(s, i, i + Len(sub) - 1) = sub}
    IN  IF occ = {} THEN 0 ELSE CHOOSE i \in occ : \A j \in occ : i <= j

\* the Python test `sub in s`
Contains(s, sub) == Find(s, sub) # 0

\* s.split(sep, 1) for a separator that occurs in s: the two parts
SplitOnce(s, sep) ==
    LET p == Find(s, sep)
    IN  <<SubSeq(s, 1, p - 1), SubSeq(s, p + Len(sep), Len(s))>>

\* s.split(sep): all the parts, for a one-character separator
RECURSIVE Split(_, _)
Split(s, sep) ==
    IF ~Contains(s, <<sep>>) THEN <<s>>
    ELSE LET parts == SplitOnce(s, <<sep>>)
         IN  <<parts[1]>> \o Split(parts[2], sep)

\* sep.join(parts)
RECURSIVE Join(_, _)
Join(parts, sep) ==
    IF Len(parts) = 0 THEN <<>>
    ELSE IF Len(parts) = 1 THEN parts[1]
    ELSE parts[1] \o sep \o Join(Tail(parts), sep)

\* `x is not None and str(x).strip() != ""`
NonBlank(x) == x.some /\ Strip(x.v) # <<>>

\* ------------------------------------------------------------------------
\* float(value): does the string parse as a Python float literal
\* ------------------------------------------------------------------------
\* the position after the longest digitpart  digit (["_"] digit)*  that
\* starts at position i of s; i itself when no digit is there
RECURSIVE DigitPartEnd(_, _)
DigitPartEnd(s, i) ==
    IF i > Len(s) \/ s[i] \notin Digits THEN i
    ELSE IF i + 1 <= Len(s) /\ s[i + 1] \in Digits THEN DigitPartEnd(s, i + 1)
    ELSE IF i + 2 <= Len(s) /\ s[i + 1] = "_" /\ s[i + 2] \in Digits
         THEN DigitPartEnd(s, i + 2)
    ELSE i + 1

\* exponent ::= ("e" | "E") [sign] digitpart, from position c to the end of s
IsExponent(s, c) ==
    /\ c <= Len(s)
    /\ s[c] \in {"e", "E"}
    /\ LET d == IF c + 1 <= Len(s) /\ s[c + 1] \in {"+", "-"} THEN c + 2 ELSE c + 1
       IN  DigitPartEnd(s, d) > d /\ DigitPartEnd(s, d) = Len(s) + 1

\* floatnumber ::= ([digitpart] "." digitpart | digitpart ["."]) [exponent]
IsFloatNumber(s) ==
    LET a == DigitPartEnd(s, 1)
        b == IF a <= Len(s) /\ s[a] = "." THEN DigitPartEnd(s, a + 1) ELSE a
        c == IF a > 1 THEN b
             ELSE IF Len(s) >= 1 /\ s[1] = "." /\ DigitPartEnd(s, 2) > 2
                  THEN DigitPartEnd(s, 2) ELSE 0
    IN  c # 0 /\ (c = Len(s) + 1 \/ IsExponent(s, c))

\* floatvalue ::= [sign] (floatnumber | "inf" | "infinity" | "nan"), the
\* words in any case; float() strips surrounding whitespace first
ParsesAsFloat(str) ==
    LET s == Strip(str)
        r == IF Len(s) >= 1 /\ s[1] \in {"+", "-"} THEN Tail(s) ELSE s
    IN  \/ Lower(r) \in {<<"i", "n", "f">>, <<"n", "a", "n">>,
                         <<"i", "n", "f", "i", "n", "i", "t", "y">>}
        \/ IsFloatNumber(r)

\* ------------------------------------------------------------------------
\* The Type Catalog (data_space, loaded once at import and never mutated)
\* ------------------------------------------------------------------------
plug == <<"p", "l", "u", "g">>

thermometer == <<"t", "h", "e", "r", "m">>

humidity_sensor == <<"h", "u", "m">>

hvac_unit == <<"h", "v", "a", "c">>

\* data_space["data_space"]["types"]: a list of one-key dicts
\* {type_name: {description, attributes: [{name, description}, ...]}}
types_entries == <<
    [type_name |-> plug, description |-> <<"w">>,
     attributes |-> << [name |-> <<"c">>, description |-> <<"W", "w">>] >>],
    [type_name |-> thermometer, description |-> <<"T", "h">>,
     attributes |-> << [name |-> <<"t">>, description |-> <<"t">>],
                       [name |-> <<"l">>, description |-> <<"w", " ", "h">>] >>],
    [type_name |-> humidity_sensor, description |-> <<"x">>,
     attributes |-> << [name |-> <<"h">>, description |-> <<"h", "T">>] >>],
    [type_name |-> hvac_unit, description |-> <<"t", "w">>,
     attributes |-> << [name |-> <<"t">>, description |-> <<"H", "t">>],
                       [name |-> <<"h">>, description |-> <<"t", "h">>] >>]
>>

\* variant: the identifier is stripped before the lookup
type_exists_stripped(type_id) ==
    \E i \in 1..Len(types_entries) : types_entries[i].type_name = Strip(type_id)

\* any(type_id in entry for entry in types_entries)
type_exists(type_id) ==
    \E i \in 1..Len(types_entries) : types_entries[i].type_name = type_id

\* ------------------------------------------------------------------------
\* _get_types: the keyword resolver
\* ------------------------------------------------------------------------
\* [attr.strip().lower() for attr in keywords.split(",") if attr.strip()]
requested_attributes(keywords) ==
    LET parts == Split(keywords, ",")
        kept == SelectSeq(parts, LAMBDA a : Strip(a) # <<>>)
    IN  [i \in 1..Len(kept) |-> Lower(Strip(kept[i]))]

\* variant: the description is not lower-cased
any_token_in_case_sensitive(description, requested) ==
    \E k \in 1..Len(requested) : Contains(description, requested[k])

\* any(token in description.lower() for token in requested_attributes)
any_token_in(description, requested) ==
    \E k \in 1..Len(requested) : Contains(Lower(description), requested[k])

\* the scan of one type's attributes, from attribute j on: TRUE when one of
\* them matches (the loop then breaks)
RECURSIVE attribute_matches(_, _, _)
attribute_matches(attributes, j, requested) ==
    IF j > Len(attributes) THEN FALSE
    ELSE IF any_token_in(attributes[j].description, requested) THEN TRUE
    ELSE attribute_matches(attributes, j + 1, requested)

\* does the loop body append this type (when its name is not yet seen)
type_matches(entry, requested) ==
    IF any_token_in(entry.description, requested) THEN TRUE
    ELSE attribute_matches(entry.attributes, 1, requested)

\* the loop over types_entries from entry i on, with the accumulated
\* matches (their positions in the catalog) and the set of seen names
RECURSIVE get_types_loop(_, _, _, _)
get_types_loop(i, requested, matches, seen) ==
    IF i > Len(types_entries) THEN matches
    ELSE LET entry == types_entries[i]
         IN  IF type_matches(entry, requested) /\ entry.type_name \notin seen
             THEN get_types_loop(i + 1, requested, Append(matches, entry),
                                 seen \cup {entry.type_name})
             ELSE get_types_loop(i + 1, requested, matches, seen)

_get_types(keywords) ==
    IF ~keywords.some \/ Strip(keywords.v) = <<>> THEN <<>>
    ELSE IF requested_attributes(keywords.v) = <<>> THEN <<>>
    ELSE get_types_loop(1, requested_attributes(keywords.v), <<>>, {})

\* ------------------------------------------------------------------------
\* _read: the filter normalizer
\* ------------------------------------------------------------------------
\* variant: < and > are tested before <= and >=
supported_operators_short_first == <<
    <<"=", "=">>, <<"!", "=">>, <<"<">>, <<">">>, <<"<", "=">>, <<">", "=">>,
    <<"c", "o", "n", "t", "a", "i", "n", "s">> >>

supported_operators == <<
    <<"=", "=">>, <<"!", "=">>, <<"<", "=">>, <<">", "=">>, <<"<">>, <<">">>,
    <<"c", "o", "n", "t", "a", "i", "n", "s">> >>

is_number(value) == ParsesAsFloat(value)

\* variant: no check of the length, so a lone quote character counts as quoted
is_quoted_no_length(value) ==
    Len(value) >= 1 /\ value[1] = value[Len(value)] /\ value[1] \in {"'", "\""}

is_quoted(value) ==
    Len(value) >= 2 /\ value[1] = value[Len(value)] /\ value[1] \in {"'", "\""}

\* the inner loop over supported_operators from operator k on: the first
\* operator that occurs in filter_str splits it; op is None when none occurs
RECURSIVE split_filter(_, _)
split_filter(filter_str, k) ==
    IF k > Len(supported_operators)
    THEN [attr |-> None, op |-> None, raw_value |-> None]
    ELSE IF Contains(filter_str, supported_operators[k])
    THEN LET parts == SplitOnce(filter_str, supported_operators[k])
         IN  [attr |-> Some(Strip(parts[1])), op |-> Some(supported_operators[k]),
              raw_value |-> Some(Strip(parts[2]))]
    ELSE split_filter(filter_str, k + 1)

\* variant: a quoted value is wrapped again
quote_value_ignoring_quotes(raw_value) ==
    IF ~is_number(raw_value)
    THEN <<"\"">> \o raw_value \o <<"\"">>
    ELSE raw_value

\* value = raw_value, wrapped in double quotes unless a number or quoted
quote_value(raw_value) ==
    IF ~is_number(raw_value) /\ ~is_quoted(raw_value)
    THEN <<"\"">> \o raw_value \o <<"\"">>
    ELSE raw_value

\* variant: a filter without operator is skipped instead of failing the call
RECURSIVE normalize_loop_skip(_, _, _, _)
normalize_loop_skip(filters, i, clauses, normalized_filters) ==
    IF i > Len(filters)
    THEN [error |-> FALSE, filter_str |-> <<>>, clauses |-> clauses,
          normalized_filters |-> normalized_filters]
    ELSE LET c == split_filter(filters[i], 1)
         IN  IF ~c.op.some
             THEN normalize_loop_skip(filters, i + 1, clauses, normalized_filters)
             ELSE LET value == quote_value(c.raw_value.v)
                      clause == [attr |-> c.attr.v, op |-> c.op.v,
                                 raw_value |-> c.raw_value.v, value |-> value]
                  IN  normalize_loop_skip(filters, i + 1, Append(clauses, clause),
                          Append(normalized_filters, c.attr.v \o c.op.v \o value))

\* the outer loop over filters from filter i on; returns the error as soon
\* as a filter has no operator, else the list of normalized clauses
RECURSIVE normalize_loop(_, _, _, _)
normalize_loop(filters, i, clauses, normalized_filters) ==
    IF i > Len(filters)
    THEN [error |-> FALSE, filter_str |-> <<>>, clauses |-> clauses,
          normalized_filters |-> normalized_filters]
    ELSE LET c == split_filter(filters[i], 1)
         IN  IF ~c.op.some
             THEN [error |-> TRUE, filter_str |-> filters[i], clauses |-> clauses,
                   normalized_filters |-> normalized_filters]
             ELSE LET value == quote_value(c.raw_value.v)
                      clause == [attr |-> c.attr.v, op |-> c.op.v,
                                 raw_value |-> c.raw_value.v, value |-> value]
                  IN  normalize_loop(filters, i + 1, Append(clauses, clause),
                          Append(normalized_filters, c.attr.v \o c.op.v \o value))

\* ------------------------------------------------------------------------
\* _read: the query dispatcher
\* ------------------------------------------------------------------------
\* variant: a key is set whenever its input is not None
build_params_not_none(type_id, object_id, query, attributes) ==
    LET input == [type |-> type_id, id |-> object_id, q |-> query, attrs |-> attributes]
        keys == {k \in {"type", "id", "q", "attrs"} : input[k].some}
    IN  [k \in keys |-> input[k].v]

\* the params dict: a key is set only when its input is non-blank
build_params(type_id, object_id, query, attributes) ==
    LET input == [type |-> type_id, id |-> object_id, q |-> query, attrs |-> attributes]
        keys == {k \in {"type", "id", "q", "attrs"} : NonBlank(input[k])}
    IN  [k \in keys |-> input[k].v]

\* _read up to the store call: either the invalid-filter return, or the
\* request (its params) that is sent to the store
_read(type_id, object_id, attributes, filters) ==
    LET n == IF filters.some /\ filters.v # <<>>
             THEN normalize_loop(filters.v, 1, <<>>, <<>>)
             ELSE [error |-> FALSE, filter_str |-> <<>>, clauses |-> <<>>,
                   normalized_filters |-> <<>>]
        query == IF filters.some /\ filters.v # <<>> /\ ~n.error
                 THEN Some(Join(n.normalized_filters, <<";">>))
                 ELSE None
    IN  [error |-> n.error, filter_str |-> n.filter_str, clauses |-> n.clauses,
         normalized_filters |-> n.normalized_filters, query |-> query,
         requests |-> IF n.error THEN <<>>
                      ELSE << build_params(type_id, object_id, query, attributes) >>]

\* ------------------------------------------------------------------------
\* Inputs
\* ------------------------------------------------------------------------
\* type_id arguments: absent, empty, blank, two catalog names, an unknown
\* name, and a catalog name with a leading space
TypeIds == {None, Some(<<>>), Some(<<" ">>), Some(plug), Some(hvac_unit),
            Some(<<"n", "o">>), Some(<<" ">> \o plug)}

ObjectIds == {None, Some(<<" ", " ">>), Some(<<"x">>)}

AttributeLists == {None, Some(<<>>), Some(<<"i", ",", "c">>)}

\* filter strings of the dispatcher's calls
FilterSamples == {
    <<"c", " ", ">", " ", "0", ".", "5">>,
    <<"l", "=", "=", "b">>,
    <<"a", "<", "=", "1">>,
    <<"n", " ", "c", "o", "n", "t", "a", "i", "n", "s", " ", "'", "x", "'">>,
    <<"b", "a", "d">>,
    <<" ">> }

\* all sequences over S of length at most n
SeqsUpTo(S, n) == UNION {[1..k -> S] : k \in 0..n}

FilterLists == {None} \cup {Some(fs) : fs \in SeqsUpTo(FilterSamples, MaxFilters)}

\* the pieces the normalizer's filter strings are made of
Tokens == {
    <<"a">>, <<"1">>, <<".">>, <<"-">>, <<" ">>, <<"\"">>, <<"'">>, <<"=">>,
    <<"=", "=">>, <<"!", "=">>, <<"<", "=">>, <<">", "=">>, <<"<">>, <<">">>,
    <<"c", "o", "n", "t", "a", "i", "n", "s">> }

RECURSIVE Flatten(_)
Flatten(ss) == IF ss = <<>> THEN <<>> ELSE Head(ss) \o Flatten(Tail(ss))

FilterStrings == {Flatten(ts) : ts \in SeqsUpTo(Tokens, MaxTokens)}

\* the one-filter lists of the direct calls
DirectFilterLists == {<<f>> : f \in FilterStrings}

KeywordTokens == {<<"t">>, <<"H">>, <<"w">>, <<",">>, <<" ">>}

KeywordStrings == {None} \cup {Some(Flatten(ts)) : ts \in SeqsUpTo(KeywordTokens, MaxKwTokens)}

\* what the store call does: a decodable body, or a transport-level failure
\* (requests raises ConnectionError; json.loads raises JSONDecodeError)
StoreReplies == {[ok |-> TRUE, body |-> "[]", exc |-> ""],
                 [ok |-> TRUE, body |-> "[{id: urn:mcp:plug1}]", exc |-> ""],
                 [ok |-> FALSE, body |-> "", exc |-> "ConnectionError"],
                 [ok |-> FALSE, body |-> "", exc |-> "JSONDecodeError"]}

\* ------------------------------------------------------------------------
\* State
\* ------------------------------------------------------------------------
VARIABLES
    pc,                 \* "idle", "waiting" (request in flight), "done" or "refeed"
    call,               \* the invocation: tool and arguments
    clauses,            \* _read: the (attr, op, raw_value, value) of each filter
    normalized_filters, \* _read: local normalized_filters
    query,              \* _read: local query
    sent,               \* the requests issued to the store by this invocation
    response,           \* the store's reply to the request
    result,             \* what the invocation returned or raised
    pass,               \* how many times the output was fed back as input
    first               \* the filters and query of the first pass

vars == <<pc, call, clauses, normalized_filters, query, sent, response, result, pass, first>>

NoCall == [tool |-> "", type_id |-> None, object_id |-> None, attributes |-> None,
           filters |-> None, keywords |-> None]

NoResult == [kind |-> "none", error |-> "", detail |-> <<>>, body |-> "", types |-> <<>>]

NoReply == [ok |-> FALSE, body |-> "", exc |-> ""]

NoFirst == [filters |-> <<>>, query |-> None]

Init ==
    /\ pc = "idle"
    /\ call = NoCall
    /\ clauses = <<>>
    /\ normalized_filters = <<>>
    /\ query = None
    /\ sent = <<>>
    /\ response = NoReply
    /\ result = NoResult
    /\ pass = 0
    /\ first = NoFirst

ErrorResult(error, detail) == [NoResult EXCEPT !.kind = "error", !.error = error, !.detail = detail]

\* ------------------------------------------------------------------------
\* Operations
\* ------------------------------------------------------------------------
\* the body of _read up to and including requests.request(...)
ReadBody(type_id, object_id, attributes, filters) ==
    LET r == _read(type_id, object_id, attributes, filters)
    IN  /\ clauses' = r.clauses
        /\ normalized_filters' = r.normalized_filters
        /\ query' = r.query
        /\ sent' = r.requests
        /\ IF r.error
           THEN /\ result' = ErrorResult("invalid_filter", r.filter_str)
                /\ pc' = "done"
           ELSE /\ result' = NoResult
                /\ pc' = "waiting"

\* variant: the type is looked up before the selectors are compared
selector_error_type_first(type_id, object_id) ==
    IF NonBlank(type_id) /\ ~type_exists(type_id.v) THEN "unknown_type"
    ELSE IF NonBlank(type_id) /\ NonBlank(object_id) THEN "conflicting_selectors"
    ELSE ""

\* the checks of read before it calls _read: the error it returns, "" if none
selector_error(type_id, object_id) ==
    IF NonBlank(type_id) /\ NonBlank(object_id) THEN "conflicting_selectors"
    ELSE IF NonBlank(type_id) /\ ~type_exists(type_id.v) THEN "unknown_type"
    ELSE ""

\* the tool read(type_id, object_id, attributes, filters)
read(type_id, object_id, attributes, filters) ==
    /\ pc = "idle"
    /\ call' = [NoCall EXCEPT !.tool = "read", !.type_id = type_id, !.object_id = object_id,
                              !.attributes = attributes, !.filters = filters]
    /\ IF selector_error(type_id, object_id) # ""
       THEN /\ result' = ErrorResult(selector_error(type_id, object_id),
                             IF selector_error(type_id, object_id) = "unknown_type"
                             THEN type_id.v ELSE <<>>)
            /\ pc' = "done"
            /\ UNCHANGED <<clauses, normalized_filters, query, sent>>
       ELSE ReadBody(type_id, object_id, attributes, filters)
    /\ UNCHANGED <<response, pass, first>>

\* a direct call _read(filters=[...]), as run_tests makes; after refeed the
\* filters are the normalized clauses of the previous call
read_direct(filters) ==
    /\ \/ pc = "idle"
       \/ pc = "refeed" /\ filters = call.filters
    /\ call' = [NoCall EXCEPT !.tool = "_read", !.filters = filters]
    /\ ReadBody(None, None, None, filters)
    /\ UNCHANGED <<response, pass, first>>

\* variant: a failed request is sent once more
store_reply_retry(reply) ==
    /\ pc = "waiting"
    /\ response' = reply
    /\ IF ~reply.ok /\ Len(sent) = 1
       THEN /\ sent' = sent \o sent
            /\ UNCHANGED <<pc, result>>
       ELSE /\ result' = IF reply.ok
                         THEN [NoResult EXCEPT !.kind = "objects", !.body = reply.body]
                         ELSE [NoResult EXCEPT !.kind = "raised", !.error = reply.exc]
            /\ pc' = "done"
            /\ UNCHANGED sent
    /\ UNCHANGED <<call, clauses, normalized_filters, query, pass, first>>

\* requests.request returns or raises, json.loads decodes or raises, and
\* _read (and read) return the decoded objects or propagate the exception
store_reply(reply) ==
    /\ pc = "waiting"
    /\ response' = reply
    /\ result' = IF reply.ok
                 THEN [NoResult EXCEPT !.kind = "objects", !.body = reply.body]
                 ELSE [NoResult EXCEPT !.kind = "raised", !.error = reply.exc]
    /\ pc' = "done"
    /\ UNCHANGED <<call, clauses, normalized_filters, query, sent, pass, first>>

\* the caller takes the normalized clauses of a finished _read as the
\* filters of its next call of _read
refeed ==
    /\ pc = "done"
    /\ call.tool = "_read"
    /\ result.kind # "error"
    /\ normalized_filters # <<>>
    /\ pass < MaxRefeed
    /\ pass' = pass + 1
    /\ first' = IF pass = 0 THEN [filters |-> call.filters.v, query |-> query] ELSE first
    /\ call' = [call EXCEPT !.filters = Some(normalized_filters)]
    /\ pc' = "refeed"
    /\ clauses' = <<>>
    /\ normalized_filters' = <<>>
    /\ query' = None
    /\ sent' = <<>>
    /\ response' = NoReply
    /\ result' = NoResult

\* the tool get_types(keywords)
get_types(keywords) ==
    /\ pc = "idle"
    /\ call' = [NoCall EXCEPT !.tool = "get_types", !.keywords = keywords]
    /\ result' = [NoResult EXCEPT !.kind = "types", !.types = _get_types(keywords)]
    /\ pc' = "done"
    /\ UNCHANGED <<clauses, normalized_filters, query, sent, response, pass, first>>

\* the invocation is over; the server waits for the next one
finish ==
    /\ pc = "done"
    /\ pc' = "idle"
    /\ call' = NoCall
    /\ clauses' = <<>>
    /\ normalized_filters' = <<>>
    /\ query' = None
    /\ sent' = <<>>
    /\ response' = NoReply
    /\ result' = NoResult
    /\ pass' = 0
    /\ first' = NoFirst

\* ------------------------------------------------------------------------
\* Specifications
\* ------------------------------------------------------------------------
Read ==
    /\ pc = "idle"
    /\ \E t \in TypeIds, o \in ObjectIds, a \in AttributeLists, f \in FilterLists :
          read(t, o, a, f)

StoreReply == \E reply \in StoreReplies : store_reply(reply)

\* the tool surface: read against the store
Next == Read \/ StoreReply \/ finish

Spec == Init /\ [][Next]_vars

ReadDirect ==
    /\ pc \in {"idle", "refeed"}
    /\ \E fs \in (IF pc = "refeed" THEN {call.filters.v} ELSE DirectFilterLists) :
          read_direct(Some(fs))

\* the normalizer, over all filter strings built from Tokens
NextNormalize == ReadDirect \/ StoreReply \/ refeed \/ finish

SpecNormalize == Init /\ [][NextNormalize]_vars

GetTypes == pc = "idle" /\ \E k \in KeywordStrings : get_types(k)

\* the keyword resolver, over all keyword strings built from KeywordTokens
NextTypes == GetTypes \/ finish

SpecTypes == Init /\ [][NextTypes]_vars

\* ------------------------------------------------------------------------
\* Vocabulary of the properties
\* ------------------------------------------------------------------------
\* an argument is supplied: not None and not whitespace-only
Supplied(x) == x.some /\ \E i \in 1..Len(x.v) : x.v[i] \notin Whitespace

CatalogNames == {types_entries[i].type_name : i \in 1..Len(types_entries)}

\* the filter string contains none of the supported operators
HasNoOperator(f) ==
    \A k \in 1..Len(supported_operators) : Find(f, supported_operators[k]) = 0

\* a read invocation has started (and possibly finished)
InRead == pc \in {"waiting", "done"} /\ call.tool = "read"

\* the selectors of the call pass the checks of read
SelectorsPass ==
    /\ ~(Supplied(call.type_id) /\ Supplied(call.object_id))
    /\ Supplied(call.type_id) => call.type_id.v \in CatalogNames

\* positions of the filters of the call that have no operator
BadFilters ==
    IF call.filters.some
    THEN {i \in 1..Len(call.filters.v) : HasNoOperator(call.filters.v[i])}
    ELSE {}

\* ------------------------------------------------------------------------
\* Properties of read (specification Spec)
\* ------------------------------------------------------------------------
\* C1: a read call with both type_id and object_id supplied and non-blank
\* fails with the conflicting-selectors error and sends no request to the
\* store, whatever attributes and filters are.
C1_ConflictingSelectors ==
    (InRead /\ Supplied(call.type_id) /\ Supplied(call.object_id))
        => /\ pc = "done"
           /\ result.kind = "error"
           /\ result.error = "conflicting_selectors"
           /\ sent = <<>>

C1_Witness ==
    /\ InRead /\ Supplied(call.type_id) /\ Supplied(call.object_id)
    /\ call.type_id.v \in CatalogNames
    /\ Supplied(call.attributes)
    /\ call.filters.some /\ Len(call.filters.v) = 2 /\ BadFilters = {}
    /\ result.error = "conflicting_selectors"

\* C2 as stated: a read call with a supplied type_id that is not a catalog
\* type name fails with the unknown-type error naming it and sends no
\* request; a catalog type name never gives that error.
C2_UnknownType_Original ==
    InRead =>
        /\ (Supplied(call.type_id) /\ call.type_id.v \notin CatalogNames)
              => /\ pc = "done"
                 /\ result.kind = "error"
                 /\ result.error = "unknown_type"
                 /\ result.detail = call.type_id.v
                 /\ sent = <<>>
        /\ (Supplied(call.type_id) /\ call.type_id.v \in CatalogNames)
              => result.error # "unknown_type"

\* C2 amended: the same, for calls whose object_id is absent or blank; with
\* both selectors supplied the call fails, with the conflicting-selectors
\* error instead, and still sends no request.
C2_UnknownType ==
    InRead =>
        /\ (Supplied(call.type_id) /\ call.type_id.v \notin CatalogNames)
              => /\ pc = "done"
                 /\ result.kind = "error"
                 /\ sent = <<>>
                 /\ IF Supplied(call.object_id)
                    THEN result.error = "conflicting_selectors"
                    ELSE result.error = "unknown_type" /\ result.detail = call.type_id.v
        /\ (Supplied(call.type_id) /\ call.type_id.v \in CatalogNames)
              => result.error # "unknown_type"

C2_Witness ==
    /\ InRead /\ Supplied(call.type_id) /\ call.type_id.v = <<" ">> \o plug
    /\ ~Supplied(call.object_id) /\ call.object_id.some
    /\ result.error = "unknown_type" /\ result.detail = <<" ">> \o plug

\* C3: when the normalizer runs on a filter list in which some filter string
\* has no supported operator, the invocation fails with the invalid-filter
\* error identifying the (first) offending string, no query is produced, not
\* even from the valid clauses before it, and no request is sent.
C3_AllOrNothing ==
    (InRead /\ SelectorsPass /\ BadFilters # {})
        => /\ pc = "done"
           /\ result.kind = "error"
           /\ result.error = "invalid_filter"
           /\ \E i \in BadFilters :
                 /\ result.detail = call.filters.v[i]
                 /\ \A j \in BadFilters : i <= j
           /\ query = None
           /\ sent = <<>>

C3_Witness ==
    /\ InRead /\ SelectorsPass
    /\ call.filters.some /\ Len(call.filters.v) = 2 /\ BadFilters = {2}
    /\ Len(normalized_filters) = 1
    /\ result.error = "invalid_filter" /\ result.detail = <<"b", "a", "d">>

\* C7: in every request sent by read, each of the keys type, id, q, attrs is
\* present exactly when its input (type_id, object_id, the normalized query,
\* attributes) is supplied and non-blank, with that input as its value and
\* never an empty or blank string; q is the normalized clauses of the
\* filters, in input order, joined with ";".
C7_CleanParams ==
    (InRead /\ sent # <<>>) =>
        LET params == sent[1]
        IN  /\ ("type" \in DOMAIN params) <=> Supplied(call.type_id)
            /\ ("id" \in DOMAIN params) <=> Supplied(call.object_id)
            /\ ("attrs" \in DOMAIN params) <=> Supplied(call.attributes)
            /\ ("q" \in DOMAIN params) <=> Supplied(query)
            /\ ("q" \in DOMAIN params) <=> (call.filters.some /\ call.filters.v # <<>>)
            /\ \A k \in DOMAIN params : \E i \in 1..Len(params[k]) : params[k][i] \notin Whitespace
            /\ "type" \in DOMAIN params => params["type"] = call.type_id.v
            /\ "id" \in DOMAIN params => params["id"] = call.object_id.v
            /\ "attrs" \in DOMAIN params => params["attrs"] = call.attributes.v
            /\ "q" \in DOMAIN params =>
                  /\ params["q"] = Join(normalized_filters, <<";">>)
                  /\ Len(normalized_filters) = Len(call.filters.v)
                  /\ \A i \in 1..Len(call.filters.v) :
                        normalized_filters[i] =
                            _read(None, None, None, Some(<<call.filters.v[i]>>)).normalized_filters[1]

C7_Witness ==
    /\ InRead /\ sent # <<>>
    /\ DOMAIN sent[1] = {"id", "q"}
    /\ call.type_id = Some(<<" ">>) /\ call.attributes = Some(<<>>)
    /\ Len(call.filters.v) = 2 /\ call.filters.v[1] # call.filters.v[2]

\* C8: a read invocation sends at most one request to the store; exactly one
\* when the selectors and all filters are valid, none otherwise; the request
\* is not sent again whatever the store answers, and a decodable answer is
\* returned as it is.
C8_SingleRequest ==
    /\ Len(sent) <= 1
    /\ InRead => (Len(sent) = 1 <=> (SelectorsPass /\ BadFilters = {}))
    /\ (InRead /\ pc = "done" /\ response.ok)
          => /\ Len(sent) = 1
             /\ result.kind = "objects"
             /\ result.body = response.body
    /\ (InRead /\ pc = "done" /\ response.exc # "") => Len(sent) = 1

C8_Witness ==
    /\ InRead /\ pc = "done" /\ response.ok /\ Len(sent) = 1
    /\ result.body = "[{id: urn:mcp:plug1}]"
    /\ call.type_id.v = plug

C8_WitnessFailed ==
    InRead /\ pc = "done" /\ response.exc = "ConnectionError" /\ Len(sent) = 1

\* C9: when the store call of a read invocation fails at transport level,
\* the invocation ends by returning a store-unavailable error that wraps the
\* cause, as a structured failure like the other error kinds.
C9_StoreUnavailable ==
    (InRead /\ pc = "done" /\ response.exc # "")
        => /\ result.kind = "error"
           /\ result.error = "store_unavailable"

\* ------------------------------------------------------------------------
\* Properties of the filter normalizer (specification SpecNormalize)
\* ------------------------------------------------------------------------
\* a direct _read invocation has normalized its filters
InNormalize == pc \in {"waiting", "done"} /\ call.tool = "_read"

\* the operators in the order in which the specification lists them
OperatorPriority == <<
    <<"=", "=">>, <<"!", "=">>, <<"<", "=">>, <<">", "=">>, <<"<">>, <<">">>,
    <<"c", "o", "n", "t", "a", "i", "n", "s">> >>

\* sub occurs in s at position p
OccursAt(s, sub, p) ==
    p >= 1 /\ p + Len(sub) - 1 <= Len(s) /\ \A i \in 1..Len(sub) : s[p + i - 1] = sub[i]

Occurs(s, sub) == \E p \in 1..Len(s) : OccursAt(s, sub, p)

\* s without its leading and trailing whitespace
RECURSIVE Trimmed(_)
Trimmed(s) ==
    IF s = <<>> THEN s
    ELSE IF Head(s) \in Whitespace THEN Trimmed(Tail(s))
    ELSE IF s[Len(s)] \in Whitespace THEN Trimmed(SubSeq(s, 1, Len(s) - 1))
    ELSE s

\* C4: a filter string that contains a supported operator is split at the
\* first occurrence of the first operator, in the order ==, !=, <=, >=, <,
\* >, contains, that occurs anywhere in it; attribute and raw value are the
\* trimmed texts left and right of it.  A filter that contains <= or >= is
\* never split at < or >.
C4_SplitAtFirstOperator ==
    InNormalize =>
        \A i \in 1..Len(call.filters.v) :
            LET f == call.filters.v[i]
            IN  \A k \in 1..Len(OperatorPriority), p \in 1..Len(f) :
                    ( /\ OccursAt(f, OperatorPriority[k], p)
                      /\ \A q \in 1..(p - 1) : ~OccursAt(f, OperatorPriority[k], q)
                      /\ \A j \in 1..(k - 1) : ~Occurs(f, OperatorPriority[j]) )
                    => /\ i <= Len(clauses)
                       /\ clauses[i].op = OperatorPriority[k]
                       /\ clauses[i].attr = Trimmed(SubSeq(f, 1, p - 1))
                       /\ clauses[i].raw_value =
                              Trimmed(SubSeq(f, p + Len(OperatorPriority[k]), Len(f)))
                       /\ clauses[i].op \in {<<"<">>, <<">">>}
                              => ~Occurs(f, <<"<", "=">>) /\ ~Occurs(f, <<">", "=">>)

\* a filter with <= as its only operator, after a space
C4_Witness ==
    /\ InNormalize /\ pass = 0
    /\ call.filters.v = << <<"a", " ", "<", "=">> >>
    /\ clauses[1].op = <<"<", "=">> /\ clauses[1].attr = <<"a">>
    /\ clauses[1].raw_value = <<>>

\* a filter with two operators: split at the one of higher priority, though
\* the other occurs first
C4_WitnessTwoOperators ==
    /\ InNormalize /\ pass = 0
    /\ call.filters.v = << <<"a", "<", "=", "=">> >>
    /\ clauses[1].op = <<"=", "=">> /\ clauses[1].attr = <<"a", "<">>

\* the value matches ^-?\d+(\.\d+)?$
NumericPattern(v) ==
    LET u == IF v # <<>> /\ Head(v) = "-" THEN Tail(v) ELSE v
        AllDigits(a, b) == a <= b /\ \A i \in a..b : u[i] \in Digits
    IN  \/ AllDigits(1, Len(u))
        \/ \E d \in 2..(Len(u) - 1) :
              u[d] = "." /\ AllDigits(1, d - 1) /\ AllDigits(d + 1, Len(u))

\* the value is pre-quoted
PreQuoted(v) ==
    Len(v) >= 2 /\ ((v[1] = "'" /\ v[Len(v)] = "'") \/ (v[1] = "\"" /\ v[Len(v)] = "\""))

DoubleQuoted(v) == <<"\"">> \o v \o <<"\"">>

\* each clause is rendered as attribute, operator, value without spaces
Rendered ==
    /\ Len(normalized_filters) = Len(clauses)
    /\ \A i \in 1..Len(clauses) :
          normalized_filters[i] = clauses[i].attr \o clauses[i].op \o clauses[i].value

\* C5 as stated: a raw value that matches the numeric pattern or is
\* pre-quoted is left unchanged; a raw value that is neither is wrapped in
\* double quotes; the clause is attribute, operator, value without spaces.
C5_ValueQuoting_Original ==
    InNormalize =>
        /\ Rendered
        /\ \A i \in 1..Len(clauses) :
              LET c == clauses[i]
              IN  IF NumericPattern(c.raw_value) \/ PreQuoted(c.raw_value)
                  THEN c.value = c.raw_value
                  ELSE c.value = DoubleQuoted(c.raw_value)

\* C5 amended: a raw value that parses as a Python float literal (every
\* value matching the numeric pattern does, and so do forms like .1 and 1.)
\* or is pre-quoted is left unchanged; a raw value that is neither is
\* wrapped in double quotes; the rule is the same for every operator and the
\* clause is attribute, operator, value without spaces.
C5_ValueQuoting ==
    InNormalize =>
        /\ Rendered
        /\ \A i \in 1..Len(clauses) :
              LET c == clauses[i]
              IN  /\ NumericPattern(c.raw_value) => ParsesAsFloat(c.raw_value)
                  /\ IF ParsesAsFloat(c.raw_value) \/ PreQuoted(c.raw_value)
                     THEN c.value = c.raw_value
                     ELSE c.value = DoubleQuoted(c.raw_value)

\* a float literal outside the numeric pattern, left unquoted
C5_Witness ==
    /\ InNormalize /\ pass = 0 /\ Len(clauses) = 1
    /\ clauses[1].raw_value = <<"1", ".">>
    /\ clauses[1].value = <<"1", ".">>
    /\ clauses[1].op = <<"c", "o", "n", "t", "a", "i", "n", "s">>

C5_WitnessWrapped ==
    /\ InNormalize /\ pass = 0 /\ Len(clauses) = 1
    /\ clauses[1].raw_value = <<"\"">>
    /\ clauses[1].value = <<"\"", "\"", "\"">>

C5_WitnessPreQuoted ==
    /\ InNormalize /\ pass = 0 /\ Len(clauses) = 1
    /\ clauses[1].raw_value = <<"'", "a", "'">>
    /\ clauses[1].value = <<"'", "a", "'">>

\* C10 as stated: feeding the normalized clauses back in as filter strings
\* normalizes successfully, to the identical query.
C10_Idempotent_Original ==
    (InNormalize /\ pass >= 1) => (result.kind # "error" /\ query = first.query)

\* the first pass splits the filter at == and the attribute it keeps, once
\* trimmed, ends with the character =
AttributeEndsInEquals(f) ==
    /\ Occurs(f, <<"=", "=">>)
    /\ LET p == CHOOSE p \in 1..Len(f) :
                   OccursAt(f, <<"=", "=">>, p) /\ \A q \in 1..(p - 1) : ~OccursAt(f, <<"=", "=">>, q)
           attr == Trimmed(SubSeq(f, 1, p - 1))
       IN  attr # <<>> /\ attr[Len(attr)] = "="

\* C10 amended: feeding the normalized clauses back in as filter strings
\* normalizes successfully, and to the identical query unless some filter
\* is split at == with an attribute text that ends, before its trailing
\* whitespace, in = (the trimmed attribute and the operator then join into
\* an earlier ==, and the second pass splits there).
C10_Idempotent ==
    (InNormalize /\ pass >= 1) =>
        /\ result.kind # "error"
        /\ (\A i \in 1..Len(first.filters) : ~AttributeEndsInEquals(first.filters[i]))
              => query = first.query

C10_Witness ==
    /\ InNormalize /\ pass = 1
    /\ first.filters = << <<"a", "=", "=", "a">> >>
    /\ first.query = Some(<<"a", "=", "=", "\"", "a", "\"">>)
    /\ query = first.query

\* ------------------------------------------------------------------------
\* Properties of the keyword resolver (specification SpecTypes)
\* ------------------------------------------------------------------------
\* the trimmed, lower-cased, non-empty keywords of a keyword string
KeywordSet(keywords) ==
    IF ~keywords.some THEN {}
    ELSE LET commas == {0, Len(keywords.v) + 1} \cup {i \in 1..Len(keywords.v) : keywords.v[i] = ","}
             pieces == {SubSeq(keywords.v, a + 1, b - 1) :
                           <<a, b>> \in {ab \in commas \X commas :
                               ab[1] < ab[2] /\ \A c \in commas : ~(ab[1] < c /\ c < ab[2])}}
         IN  {Lower(Trimmed(e)) : e \in {x \in pieces : Trimmed(x) # <<>>}}

\* the type's description or one of its attributes' descriptions contains,
\* lower-cased, one of the keywords
TypeHasKeyword(entry, kws) ==
    \E kw \in kws :
        \/ Occurs(Lower(entry.description), kw)
        \/ \E j \in 1..Len(entry.attributes) : Occurs(Lower(entry.attributes[j].description), kw)

\* C6: get_types returns exactly the catalog types whose lower-cased
\* description, or that of one of their attributes, contains one of the
\* trimmed, lower-cased, non-empty keywords; each once, in catalog order.
\* A None, empty, blank or all-empty keyword string gives the empty list,
\* and never an error.
C6_ResolveTypes ==
    (pc = "done" /\ call.tool = "get_types") =>
        LET kws == KeywordSet(call.keywords)
            matching == {i \in 1..Len(types_entries) : TypeHasKeyword(types_entries[i], kws)}
        IN  /\ result.kind = "types"
            /\ Len(result.types) = Cardinality(matching)
            /\ \A n \in 1..Len(result.types) :
                  \E i \in matching :
                      /\ result.types[n] = types_entries[i]
                      /\ Cardinality({j \in matching : j < i}) = n - 1
            /\ kws = {} => result.types = <<>>

\* two keywords, upper case and padded; types matched by description only,
\* by an attribute only, and by both
C6_Witness ==
    /\ pc = "done" /\ call.tool = "get_types"
    /\ call.keywords = Some(<<" ", "H", ",", "w">>)
    /\ Len(result.types) = 4

C6_WitnessBlank ==
    /\ pc = "done" /\ call.tool = "get_types"
    /\ call.keywords = Some(<<" ", ",", ",", " ">>)
    /\ result.types = <<>>

C6_WitnessSome ==
    /\ pc = "done" /\ call.tool = "get_types"
    /\ call.keywords = Some(<<"H", "t">>)
    /\ Len(result.types) = 2
    /\ result.types[1].type_name = humidity_sensor
    /\ result.types[2].type_name = hvac_unit
====
